---- MODULE Spec2Model ----
(***************************************************************************)
(* A model of the deposition simulator of maldi_dep: the bed mesh          *)
(* (meshing/BedMesh.py, meshing/Mask.py, meshing/Nozzle.py), the           *)
(* time-stepped Scheduler (simulation/Simulator.py), the serpentine path   *)
(* generator (optimizer/SquaredSerpentine.py) and the stride sweep         *)
(* (optimizer/Optimizer.py, wrapper/MaldiStatus.py).                       *)
(*                                                                         *)
(* Numbers.  Lengths are in mm.  A Python float is modelled by an exact    *)
(* rational <<n, d>> (d > 0, lowest terms), so that "equal" and "less"     *)
(* are decided exactly.  Two operations leave the rationals and are        *)
(* modelled in fixed point: the square root of a distance (np.sqrt) is    *)
(* rounded down to a multiple of 1/SqrtScale, and a dose added to a cell   *)
(* of the deposition mesh is rounded down to a multiple of 1/DoseScale; a  *)
(* standard deviation (np.std) is taken to that dose resolution.           *)
(*                                                                         *)
(* Optimizer._sim_routine and the wrappers read the movement list of a     *)
(* serpentine as serp.serpentines; SquaredSerpentine keeps that list in    *)
(* movements, and the model reads it there.                                *)
(***************************************************************************)
EXTENDS Integers, Sequences, FiniteSets, TLC

VARIABLES bed, sched, serps, opt

vars == <<bed, sched, serps, opt>>

-----------------------------------------------------------------------------
(* Bounds of the model *)

\* resolution of a modelled square root: results are multiples of 1/SqrtScale
SqrtScale == 10

\* resolution of a modelled dose: cells hold multiples of 1/DoseScale
DoseScale == 6

\* longest movement list handed to a Scheduler directly
MaxMoves == 2

-----------------------------------------------------------------------------
(* Rational arithmetic *)

Abs(a) == IF a < 0 THEN -a ELSE a

Max(a, b) == IF a >= b THEN a ELSE b

Min(a, b) == IF a <= b THEN a ELSE b

RECURSIVE GCD(_, _)
GCD(a, b) == IF b = 0 THEN a ELSE GCD(b, a % b)

Reduce(n, d, g) == IF d < 0 THEN <<(-n) \div g, (-d) \div g>> ELSE <<n \div g, d \div g>>

Norm(n, d) == Reduce(n, d, GCD(Abs(n), Abs(d)))

R(i) == <<i, 1>>

RAdd(p, q) == Norm(p[1] * q[2] + q[1] * p[2], p[2] * q[2])

RSub(p, q) == Norm(p[1] * q[2] - q[1] * p[2], p[2] * q[2])

RMul(p, q) == Norm(p[1] * q[1], p[2] * q[2])

RDiv(p, q) == Norm(p[1] * q[2], p[2] * q[1])

RLt(p, q) == p[1] * q[2] < q[1] * p[2]

RLe(p, q) == p[1] * q[2] <= q[1] * p[2]

RMax(p, q) == IF RLt(p, q) THEN q ELSE p

RAbs(p) == <<Abs(p[1]), p[2]>>

RMin(p, q) == IF RLt(q, p) THEN q ELSE p

\* math.floor / np.floor
RFloor(p) == p[1] \div p[2]

\* int(): truncation toward zero
RTrunc(p) == IF p[1] >= 0 THEN p[1] \div p[2] ELSE -((-p[1]) \div p[2])

\* round(): Python rounds a half to the even neighbour
PyRoundAt(f, twice) ==
    IF RLt(twice, R(1)) THEN f
    ELSE IF RLt(R(1), twice) THEN f + 1
    ELSE IF f % 2 = 0 THEN f ELSE f + 1

PyRound(p) == PyRoundAt(RFloor(p), RSub(RMul(R(2), p), R(2 * RFloor(p))))

RECURSIVE ISqrtBetween(_, _, _)
ISqrtBetween(n, lo, hi) ==
    IF hi - lo <= 1 THEN (IF hi * hi <= n THEN hi ELSE lo)
    ELSE IF ((lo + hi) \div 2) * ((lo + hi) \div 2) <= n
         THEN ISqrtBetween(n, (lo + hi) \div 2, hi)
         ELSE ISqrtBetween(n, lo, (lo + hi) \div 2)

\* the largest integer whose square is at most n
ISqrt(n) == ISqrtBetween(n, 0, Min(n, 46340))

\* np.sqrt of a rational p >= 0, rounded down to a multiple of 1/SqrtScale
RSqrt(p) ==
    Norm(ISqrt(p[1] * p[2] * SqrtScale * SqrtScale), p[2] * SqrtScale)

\* np.linspace(start, stop, num)[k], k in 0..num-1
Linspace(start, stop, num, k) ==
    IF num = 1 THEN start
    ELSE RAdd(start, RDiv(RMul(R(k), RSub(stop, start)), R(num - 1)))

-----------------------------------------------------------------------------
(* BedMesh, SampleMask, SprayMask, Nozzle *)

\* BedMesh.size_mm of the modelled bed (Config "bed_size_mm")
size_mm == 8

\* BedMesh.grid_step_mm of the modelled bed (Config "grid_step")
grid_step_mm == 2

\* the kernel diameter Config()._get_diameter_for_z gives for the working height
spray_diameter_mm == 4

\* BedMesh.__init__ / Mask.__init__: int(round(size_mm / grid_step_mm)) + 1
StepsCount(size, step) == PyRound(Norm(size, step)) + 1

steps_count == StepsCount(size_mm, grid_step_mm)

\* cells <<row, col>> of an n x n array; the row is the y index, the column the x index
CellsOf(n) == (0 .. n - 1) \X (0 .. n - 1)

Cells == CellsOf(steps_count)

\* BedMesh._x_space[j] = BedMesh._y_space[j]: np.linspace(0, size_mm, steps_count)
BedCoord(j) == Linspace(R(0), R(size_mm), steps_count, j)

\* the spray function handed to the bed (MaldiStatus.gaussian_function): a
\* radially symmetric, positive profile that decreases with x^2 + y^2, in dose units
SprayFunction(x, y) ==
    RFloor(RDiv(R(18), RAdd(R(1), RAdd(RMul(x, x), RMul(y, y)))))

\* SprayMask.__init__ on the mesh np.linspace(-radius, +radius, steps) of Mask.__init__
KernelCoord(diameter, n, j) == Linspace(Norm(-diameter, 2), Norm(diameter, 2), n, j)

SprayMaskOf(diameter, n) ==
    [side |-> n,
     mask |-> [c \in CellsOf(n) |->
                 SprayFunction(KernelCoord(diameter, n, c[2]), KernelCoord(diameter, n, c[1]))],
     radius_cells |-> (n - 1) \div 2]

SprayMaskNew(diameter, step) == SprayMaskOf(diameter, StepsCount(diameter, step))

NoSprayMask == [side |-> 0, mask |-> <<>>, radius_cells |-> 0]

\* Nozzle.__init__: the kernel is built only when a spray function is given
NozzleNew(has_function) ==
    IF has_function THEN SprayMaskNew(spray_diameter_mm, grid_step_mm) ELSE NoSprayMask

\* MaldiStatus.gaussian_function raises ValueError for a fitted diameter that is
\* not positive; Wrapper.gaussian_function does not read the fitted diameter
GaussianFunctionRaises(diameter_mm, function) ==
    function = "MaldiStatus.gaussian_function" /\ diameter_mm <= 0

\* Nozzle.__init__ for the diameter Config()._get_diameter_for_z returns and the
\* spray function handed to the bed: no kernel without a function or when the
\* function raises inside SprayMask.__init__; a diameter that is not positive
\* is replaced by max(step * 3, 1) before the kernel is sized
NozzleInit(diameter_mm, function) ==
    IF function = "None" \/ GaussianFunctionRaises(diameter_mm, function) THEN NoSprayMask
    ELSE SprayMaskNew(IF diameter_mm <= 0 THEN Max(grid_step_mm * 3, 1) ELSE diameter_mm,
                      grid_step_mm)

\* BedMesh.__init__
BedMeshNew(has_function) ==
    [deposition_mesh |-> [c \in Cells |-> 0],
     bool_mesh |-> [c \in Cells |-> FALSE],
     bool_masks |-> <<>>,
     spray_mask |-> NozzleNew(has_function)]

\* the indices a Python slice [lo:hi] selects in a sequence of length n
PySlice(lo, hi, n) ==
    IF Min(IF hi < 0 THEN Max(0, n + hi) ELSE hi, n) > Min(IF lo < 0 THEN Max(0, n + lo) ELSE lo, n)
    THEN [i \in 1 .. (Min(IF hi < 0 THEN Max(0, n + hi) ELSE hi, n)
                      - Min(IF lo < 0 THEN Max(0, n + lo) ELSE lo, n)) |->
             Min(IF lo < 0 THEN Max(0, n + lo) ELSE lo, n) + i - 1]
    ELSE <<>>

\* the value of the kernel tile at <<a, b>>, 0 outside the tile (cval = 0)
TileAt(kern, a, b) ==
    IF a \in 0 .. kern.side - 1 /\ b \in 0 .. kern.side - 1 THEN R(kern.mask[<<a, b>>]) ELSE R(0)

\* scipy.ndimage.shift(tile, (fy, fx), order=1, mode='constant', cval=0) at <<i, j>>:
\* out[i, j] is the bilinear sample of the tile at <<i - fy, j - fx>>
ShiftedTile(kern, fy, fx, i, j) ==
    RAdd(RAdd(RMul(RMul(RSub(R(1), fy), RSub(R(1), fx)), TileAt(kern, i, j)),
              RMul(RMul(RSub(R(1), fy), fx), TileAt(kern, i, j - 1))),
         RAdd(RMul(RMul(fy, RSub(R(1), fx)), TileAt(kern, i - 1, j)),
              RMul(RMul(fy, fx), TileAt(kern, i - 1, j - 1))))

\* SprayMask.apply, lines 160-162: the shifted tile, scaled by time when time > 0
ScaledTile(kern, fy, fx, time, i, j) ==
    IF RLt(R(0), time) THEN RMul(ShiftedTile(kern, fy, fx, i, j), time)
    ELSE ShiftedTile(kern, fy, fx, i, j)

\* a dose, rounded down to the resolution of the deposition mesh
Dose(w) == RFloor(RMul(w, R(DoseScale)))

\* SprayMask.apply, lines 153-158: the cell index and the sub-cell remainder
CellIndex(v) == RFloor(RDiv(v, R(grid_step_mm)))

CellFrac(v) == RSub(RDiv(v, R(grid_step_mm)), R(CellIndex(v)))

\* SprayMask.apply, lines 182-189: the bounds of the bed window and of the
\* kernel window along one axis, for the cell index j, the radius r and the
\* bed length n
BedLo(j, r) == Max(0, j - r)

BedHi(j, r, n) == Min(n, j + r + 1)

KerLo(j, r) == r - (j - BedLo(j, r))

KerHi(j, r, n) == KerLo(j, r) + (BedHi(j, r, n) - BedLo(j, r))

\* the position of index v in the slice sl, 0 if it is not selected
SlicePos(sl, v) == IF \E a \in 1 .. Len(sl) : sl[a] = v
                   THEN CHOOSE a \in 1 .. Len(sl) : sl[a] = v ELSE 0

\* numpy broadcasting of the kernel window k onto the bed window b along one axis
Broadcasts(b, k) == Len(k) = Len(b) \/ Len(k) = 1

\* SprayMask.apply, line 190: target[by, bx] += shifted_tile[ky, kx].  The result
\* is [ok, mesh]; ok is FALSE when numpy cannot broadcast the kernel window onto
\* the bed window (the += raises).
WindowAdd(kern, mesh, by, bx, ky, kx, fy, fx, time) ==
    IF ~(Broadcasts(by, ky) /\ Broadcasts(bx, kx)) THEN [ok |-> FALSE, mesh |-> mesh]
    ELSE [ok |-> TRUE,
          mesh |-> [c \in DOMAIN mesh |->
                      IF SlicePos(by, c[1]) > 0 /\ SlicePos(bx, c[2]) > 0
                      THEN mesh[c] + Dose(ScaledTile(kern, fy, fx, time,
                                 ky[IF Len(ky) = 1 THEN 1 ELSE SlicePos(by, c[1])],
                                 kx[IF Len(kx) = 1 THEN 1 ELSE SlicePos(bx, c[2])]))
                      ELSE mesh[c]]]

WindowAt(kern, mesh, n, jx, jy, fx, fy, time) ==
    WindowAdd(kern, mesh,
              PySlice(BedLo(jy, kern.radius_cells), BedHi(jy, kern.radius_cells, n), n),
              PySlice(BedLo(jx, kern.radius_cells), BedHi(jx, kern.radius_cells, n), n),
              PySlice(KerLo(jy, kern.radius_cells), KerHi(jy, kern.radius_cells, n), kern.side),
              PySlice(KerLo(jx, kern.radius_cells), KerHi(jx, kern.radius_cells, n), kern.side),
              fy, fx, time)

\* SprayMask.apply on a BedMesh target (mask_anchor = (0, 0))
SprayMaskApply(kern, mesh, n, pos, time) ==
    WindowAt(kern, mesh, n, CellIndex(pos[1]), CellIndex(pos[2]),
             CellFrac(pos[1]), CellFrac(pos[2]), time)

\* Nozzle.spray: [raised, mesh].  With no kernel nothing is deposited and the
\* call raises ValueError; a failed windowed add raises too.
SprayOutcome(a) == [raised |-> ~a.ok, mesh |-> a.mesh]

NozzleSpray(b, pos, time) ==
    IF b.spray_mask.side = 0 THEN [raised |-> TRUE, mesh |-> b.deposition_mesh]
    ELSE SprayOutcome(SprayMaskApply(b.spray_mask, b.deposition_mesh, steps_count, pos, time))

\* a clear that resets the whole grid
ClearEveryLayer(b) ==
    [b EXCEPT !.deposition_mesh = [c \in Cells |-> 0],
              !.bool_mesh = [c \in Cells |-> FALSE]]

\* BedMesh.clear_deposition_mesh
ClearDepositionMesh(b) == [b EXCEPT !.deposition_mesh = [c \in Cells |-> 0]]

-----------------------------------------------------------------------------
(* Movement and Scheduler (simulation/Simulator.py) *)

\* Movement.__post_init__: x, y and speed as floats
Movement(x, y, speed) == [x |-> x, y |-> y, speed |-> speed]

\* Scheduler.__init__.  idx is the position of the for loop of start over
\* movement_list (1-based; Len + 1 once the list is exhausted); sub counts the
\* elements of time_steps the inner loop has consumed for movement idx; loc holds
\* the locals of the iteration (x_speed, y_speed, time_steps).  sprays records
\* every call of Nozzle.spray that start made: its movement, position and time
\* argument.  approach is the dose the travel to the first movement deposited.
SchedulerNew(mov_list) ==
    [current_position |-> <<R(0), R(0)>>,
     current_time |-> R(0),
     movement_list |-> mov_list,
     min_time_step |-> <<1, 10>>,
     status |-> "new",
     idx |-> 1,
     sub |-> 0,
     loc |-> <<>>,
     sprays |-> <<>>,
     approach |-> [c \in Cells |-> 0]]

\* Scheduler.start, lines 87-90
XDistance(s, m) == RSub(m.x, s.current_position[1])

YDistance(s, m) == RSub(m.y, s.current_position[2])

SqDistance(s, m) ==
    RAdd(RMul(XDistance(s, m), XDistance(s, m)), RMul(YDistance(s, m), YDistance(s, m)))

Distance(s, m) == RSqrt(SqDistance(s, m))

TimeDuration(s, m) ==
    IF m.speed # R(0) THEN RDiv(Distance(s, m), m.speed) ELSE R(0)

\* distance < step, decided on the exact squares
IsDwell(s, m) == RLt(SqDistance(s, m), R(grid_step_mm * grid_step_mm))

\* int(distance / step), decided on the exact squares: the largest n with
\* (n * step)^2 <= distance^2
StepsIn(s, m) == ISqrt(RFloor(RDiv(SqDistance(s, m), R(grid_step_mm * grid_step_mm))))

\* Scheduler.start, lines 109-110
TimeStepsCount(s, m) ==
    IF RLt(s.min_time_step, R(StepsIn(s, m))) THEN StepsIn(s, m)
    ELSE RTrunc(RDiv(Distance(s, m), s.min_time_step))

\* Scheduler.start, lines 100-111: the locals of a travel iteration
LocalsFor(s, m, duration) ==
    [x_speed |-> IF duration = R(0) THEN R(0) ELSE RDiv(XDistance(s, m), duration),
     y_speed |-> IF duration = R(0) THEN R(0) ELSE RDiv(YDistance(s, m), duration),
     start |-> s.current_time,
     stop |-> RAdd(s.current_time, duration),
     num |-> Max(1, TimeStepsCount(s, m))]

TravelLocals(s, m) == LocalsFor(s, m, TimeDuration(s, m))

\* one call of Nozzle.spray from start, on the bed b and with outcome a: the
\* log entry and the status; the dose of a spray of the travel to the first
\* movement is added to approach
Sprayed(s, b, a, pos, time, travel) ==
    [s EXCEPT !.sprays = Append(@, [mv |-> s.idx, pos |-> pos, time |-> time]),
              !.approach = IF travel /\ s.idx = 1 /\ ~a.raised
                           THEN [c \in Cells |-> @[c] + a.mesh[c] - b.deposition_mesh[c]]
                           ELSE @,
              !.status = IF a.raised THEN "raised" ELSE @]

\* a dwell that also takes the nozzle to the target of the movement
DwellOutcomeMoving(s, b, a) ==
    <<[Sprayed(s, b, a, s.current_position, R(0), FALSE)
          EXCEPT !.idx = @ + 1,
                 !.current_position = <<s.movement_list[s.idx].x, s.movement_list[s.idx].y>>],
      [b EXCEPT !.deposition_mesh = a.mesh]>>

\* Scheduler.start, lines 91-99: the movement is closer than one step
DwellOutcome(s, b, a) ==
    <<IF a.raised THEN Sprayed(s, b, a, s.current_position, R(0), FALSE)
      ELSE [Sprayed(s, b, a, s.current_position, R(0), FALSE) EXCEPT !.idx = @ + 1],
      [b EXCEPT !.deposition_mesh = a.mesh]>>

DwellStep(s, b) == DwellOutcome(s, b, NozzleSpray(b, s.current_position, R(0)))

\* the end of one iteration of "for t in time_steps": the last one ends the
\* iteration of the outer loop
LoopNext(s, loc) ==
    IF s.sub + 1 = loc.num THEN [s EXCEPT !.idx = @ + 1, !.sub = 0, !.loc = <<>>]
    ELSE [s EXCEPT !.sub = @ + 1, !.loc = loc]

\* Scheduler.start, lines 118-121
SprayOutcomeStep(s, b, loc, t, time_incr, pos, a) ==
    <<IF a.raised
      THEN [Sprayed([s EXCEPT !.current_position = pos], b, a, pos, time_incr, TRUE)
               EXCEPT !.loc = loc]
      ELSE LoopNext([Sprayed([s EXCEPT !.current_position = pos], b, a, pos, time_incr, TRUE)
                        EXCEPT !.current_time = t], loc),
      [b EXCEPT !.deposition_mesh = a.mesh]>>

MoveAndSpray(s, b, loc, t, time_incr, pos) ==
    SprayOutcomeStep(s, b, loc, t, time_incr, pos, NozzleSpray(b, pos, time_incr))

\* Scheduler.start, lines 114-117
SubStepIncr(s, b, loc, t, time_incr) ==
    IF RLt(R(0), time_incr)
    THEN MoveAndSpray(s, b, loc, t, time_incr,
                      <<RAdd(s.current_position[1], RMul(loc.x_speed, time_incr)),
                        RAdd(s.current_position[2], RMul(loc.y_speed, time_incr))>>)
    ELSE <<LoopNext(s, loc), b>>

SubStepAt(s, b, loc, t) == SubStepIncr(s, b, loc, t, RSub(t, s.current_time))

SubStepLoc(s, b, loc) == SubStepAt(s, b, loc, Linspace(loc.start, loc.stop, loc.num, s.sub))

\* Scheduler.start, lines 113-121: one iteration of "for t in time_steps"; the
\* first one follows the computation of the locals
SubStep(s, b) ==
    SubStepLoc(s, b, IF s.sub = 0 THEN TravelLocals(s, s.movement_list[s.idx]) ELSE s.loc)

\* a start that sprays once where it stands before it looks at the list
SchedulerStepSpraying(s, b) ==
    IF s.idx > Len(s.movement_list)
    THEN <<[DwellStep(s, b)[1] EXCEPT !.status = IF @ = "raised" THEN @ ELSE "done"],
           DwellStep(s, b)[2]>>
    ELSE IF s.sub = 0 /\ IsDwell(s, s.movement_list[s.idx]) THEN DwellStep(s, b)
    ELSE SubStep(s, b)

\* one step of the loops of Scheduler.start
SchedulerStep(s, b) ==
    IF s.idx > Len(s.movement_list) THEN <<[s EXCEPT !.status = "done"], b>>
    ELSE IF s.sub = 0 /\ IsDwell(s, s.movement_list[s.idx]) THEN DwellStep(s, b)
    ELSE SubStep(s, b)

\* Scheduler.start run to its end: <<scheduler, bed>> when start returns or raises
RECURSIVE SchedulerRun(_)
SchedulerRun(sb) ==
    IF sb[1].status # "running" THEN sb ELSE SchedulerRun(SchedulerStep(sb[1], sb[2]))

-----------------------------------------------------------------------------
(* The Scheduler run on its own: a bed and a movement list handed to         *)
(* Scheduler(bed=..., mov_list=...), then start().                           *)

\* movements a caller hands to a Scheduler directly
MoveXs == {0, 1, 3, 4, 7}

MoveYs == {0, 3}

MoveSpeeds == {0, 2}

Moves == {Movement(R(x), R(y), R(v)) : x \in MoveXs, y \in MoveYs, v \in MoveSpeeds}

RECURSIVE SeqsUpTo(_, _)
SeqsUpTo(S, n) ==
    IF n = 0 THEN {<<>>}
    ELSE SeqsUpTo(S, n - 1) \cup {Append(q, e) : q \in {r \in SeqsUpTo(S, n - 1) : Len(r) = n - 1}, e \in S}

MoveLists == SeqsUpTo(Moves, MaxMoves)

NoOptimizer == [pc |-> "none"]

InitSched ==
    /\ \E has_function \in BOOLEAN : bed = BedMeshNew(has_function)
    /\ \E ml \in MoveLists : sched = SchedulerNew(ml)
    /\ serps = <<>>
    /\ opt = NoOptimizer

\* start() is called
Start ==
    /\ sched.status = "new"
    /\ sched' = [sched EXCEPT !.status = "running"]
    /\ UNCHANGED <<bed, serps, opt>>

\* an iteration of the outer loop for a movement closer than one step
Dwell ==
    /\ sched.status = "running"
    /\ sched.idx <= Len(sched.movement_list)
    /\ sched.sub = 0
    /\ IsDwell(sched, sched.movement_list[sched.idx])
    /\ sched' = SchedulerStep(sched, bed)[1]
    /\ bed' = SchedulerStep(sched, bed)[2]
    /\ UNCHANGED <<serps, opt>>

\* an iteration of the inner loop of a travel
Travel ==
    /\ sched.status = "running"
    /\ sched.idx <= Len(sched.movement_list)
    /\ ~(sched.sub = 0 /\ IsDwell(sched, sched.movement_list[sched.idx]))
    /\ sched' = SchedulerStep(sched, bed)[1]
    /\ bed' = SchedulerStep(sched, bed)[2]
    /\ UNCHANGED <<serps, opt>>

\* the movement list is exhausted: start() returns
Return ==
    /\ sched.status = "running"
    /\ sched.idx > Len(sched.movement_list)
    /\ sched' = SchedulerStep(sched, bed)[1]
    /\ bed' = SchedulerStep(sched, bed)[2]
    /\ UNCHANGED <<serps, opt>>

NextSched == Start \/ Dwell \/ Travel \/ Return

SpecSched == InitSched /\ [][NextSched]_vars

(***************************************************************************)
(* Properties of Scheduler.start                                           *)
(***************************************************************************)

\* the state of the Scheduler before start()
AtStart == SchedulerNew(sched.movement_list)

FirstMovement == sched.movement_list[1]

\* the nozzle stands exactly on a grid point
OnGridPoint(pos) == CellFrac(pos[1]) = R(0) /\ CellFrac(pos[2]) = R(0)

CellUnder(pos) == <<CellIndex(pos[2]), CellIndex(pos[1])>>

KernelCentre(b) == b.spray_mask.mask[<<b.spray_mask.radius_cells, b.spray_mask.radius_cells>>]

\* a step of the dwell branch logs one spray at the current position with
\* time 0, keeps position and time, and, when the spray succeeds, goes on to the
\* next movement having deposited the unscaled kernel under the nozzle
DwellSpraysOnce ==
    Dwell =>
        /\ sched'.sprays = Append(sched.sprays,
               [mv |-> sched.idx, pos |-> sched.current_position, time |-> R(0)])
        /\ sched'.current_position = sched.current_position
        /\ sched'.current_time = sched.current_time
        /\ sched'.status = "running" =>
              /\ sched'.idx = sched.idx + 1
              /\ sched'.sub = 0
              /\ OnGridPoint(sched.current_position) =>
                    bed'.deposition_mesh[CellUnder(sched.current_position)]
                        = bed.deposition_mesh[CellUnder(sched.current_position)]
                          + DoseScale * KernelCentre(bed)

SingleZeroDistanceDone ==
    /\ sched.status = "done"
    /\ Len(sched.movement_list) = 1
    /\ SqDistance(AtStart, FirstMovement) = R(0)

\* C8: in Scheduler.start a movement closer than one grid step to the current
\* position causes exactly one spray, at the current position with the default
\* (unscaled) duration, and changes neither the simulated time nor the current
\* position; a one-movement list at zero distance sprays exactly once and does
\* not advance the time.
C8_DwellSpraysOnceInPlace ==
    /\ [][DwellSpraysOnce]_vars
    /\ [](SingleZeroDistanceDone =>
             /\ Len(sched.sprays) = 1
             /\ sched.current_time = R(0)
             /\ sched.current_position = <<R(0), R(0)>>)

\* start() has returned from a list of two movements: a travel to a grid point
\* away from the origin and a dwell on a target less than a step from it
C8_Witness ==
    /\ sched.status = "done"
    /\ Len(sched.movement_list) = 2
    /\ sched.movement_list[1] = Movement(R(4), R(0), R(2))
    /\ sched.movement_list[2] = Movement(R(3), R(0), R(2))
    /\ Len(sched.sprays) = 2
    /\ sched.sprays[2] = [mv |-> 2, pos |-> <<R(4), R(0)>>, time |-> R(0)]
    /\ sched.current_position = <<R(4), R(0)>>
    /\ bed.deposition_mesh[<<0, 2>>] > DoseScale * KernelCentre(bed)

SingleFarMovementDone ==
    /\ sched.status = "done"
    /\ Len(sched.movement_list) = 1
    /\ RLt(R(0), FirstMovement.speed)
    /\ RLt(R(grid_step_mm * grid_step_mm), SqDistance(AtStart, FirstMovement))

\* C9: for a single movement with speed v > 0 whose distance d from the current
\* position is greater than one grid step, after Scheduler.start the current
\* position is the target of the movement and the simulated time has grown by
\* d / v.
C9_TravelReachesTarget ==
    SingleFarMovementDone =>
        /\ sched.current_position = <<FirstMovement.x, FirstMovement.y>>
        /\ sched.current_time = TimeDuration(AtStart, FirstMovement)

\* C10: the travel from the origin to the first movement of a path accumulates
\* no deposition: no cell has received material from a spray issued on the way
\* to the first target.
C10_ApproachDepositsNothing ==
    \A c \in Cells : sched.approach[c] = 0

\* C11: if a spray fails inside Scheduler.start the error propagates at once:
\* no later sub-step or movement is executed, nothing is retried, and the
\* position and the time remain those reached before the failing spray.
C11_FailedSprayHaltsInPlace ==
    [][/\ sched.status # "raised"
       /\ sched'.status = "raised" =>
             /\ sched'.current_position = sched.current_position
             /\ sched'.current_time = sched.current_time
             /\ sched'.idx = sched.idx
             /\ Len(sched'.sprays) = Len(sched.sprays) + 1]_vars

\* C12: Scheduler.start on an empty movement sequence is not an error and
\* changes nothing: the deposition accumulator, the boolean layer, the current
\* position and the simulated time stay as they were.
C12_EmptySequenceIsNoOp ==
    [][sched.movement_list = <<>> =>
          /\ bed' = bed
          /\ sched'.current_position = sched.current_position
          /\ sched'.current_time = sched.current_time
          /\ sched'.sprays = <<>>
          /\ sched'.status \in {"running", "done"}]_vars

\* start has returned from an empty movement sequence on a bed with a kernel
C12_Witness ==
    /\ sched.status = "done"
    /\ sched.movement_list = <<>>
    /\ bed.spray_mask.side > 0
    /\ sched.current_time = R(0)

-----------------------------------------------------------------------------
(* SampleMask, BedMesh.add_bool_mask, BedMesh.get_std_deviation *)

\* SampleMask.__init__: the rectangle a sample mask keeps (bl_corner, x_size, y_size)
SampleMaskNew(x, y, x_size, y_size) ==
    [has_bbox |-> TRUE, bl_corner |-> <<R(x), R(y)>>, x_size |-> R(x_size), y_size |-> R(y_size)]

\* a mask without rectangle attributes (a Mask that is not a SampleMask)
NoSampleMask ==
    [has_bbox |-> FALSE, bl_corner |-> <<R(0), R(0)>>, x_size |-> R(0), y_size |-> R(0)]

\* a rectangle closed at its upper edges too
BooleanFunctionClosed(mk, c) ==
    /\ RLe(mk.bl_corner[1], BedCoord(c[2]))
    /\ RLe(BedCoord(c[2]), RAdd(mk.bl_corner[1], mk.x_size))
    /\ RLe(mk.bl_corner[2], BedCoord(c[1]))
    /\ RLe(BedCoord(c[1]), RAdd(mk.bl_corner[2], mk.y_size))

\* utils.boolean_function at the grid point of cell c: inclusive at the
\* bottom-left, exclusive at the top-right
BooleanFunction(mk, c) ==
    /\ RLe(mk.bl_corner[1], BedCoord(c[2]))
    /\ RLt(BedCoord(c[2]), RAdd(mk.bl_corner[1], mk.x_size))
    /\ RLe(mk.bl_corner[2], BedCoord(c[1]))
    /\ RLt(BedCoord(c[1]), RAdd(mk.bl_corner[2], mk.y_size))

\* an add_bool_mask that overwrites the boolean layer with the new mask
AddBoolMaskOverwriting(b, mk) ==
    [b EXCEPT !.bool_mesh = [c \in Cells |-> BooleanFunction(mk, c)],
              !.bool_masks = Append(@, mk)]

\* BedMesh.add_bool_mask: the mask is OR-ed onto bool_mesh and registered
AddBoolMask(b, mk) ==
    [b EXCEPT !.bool_mesh = [c \in Cells |-> b.bool_mesh[c] \/ BooleanFunction(mk, c)],
              !.bool_masks = Append(@, mk)]

\* BedMesh.add_bool_mask(points, shape): [raised, bed, mask].  points is a list
\* of <<x_min, x_max, y_min, y_max>>; the loop over it returns on its first
\* element, an empty list returns None, another shape raises ValueError.
AddBoolMaskTo(b, points, shape) ==
    IF shape # "rectangle" THEN [raised |-> TRUE, bed |-> b, mask |-> NoSampleMask]
    ELSE IF points = <<>> THEN [raised |-> FALSE, bed |-> b, mask |-> NoSampleMask]
    ELSE [raised |-> FALSE,
          bed |-> AddBoolMask(b, SampleMaskNew(points[1][1], points[1][3],
                                               points[1][2] - points[1][1],
                                               points[1][4] - points[1][3])),
          mask |-> SampleMaskNew(points[1][1], points[1][3],
                                 points[1][2] - points[1][1],
                                 points[1][4] - points[1][3])]

\* cells that share an edge or a corner
AdjacentDiagonal(c, d) == Max(Abs(c[1] - d[1]), Abs(c[2] - d[2])) = 1

\* scipy.ndimage.label with the default structure: cells that share an edge
Adjacent(c, d) == Abs(c[1] - d[1]) + Abs(c[2] - d[2]) = 1

Frontier(S, T) == {d \in T \ S : \E c \in S : Adjacent(c, d)}

RECURSIVE Grow(_, _)
Grow(S, T) == IF Frontier(S, T) = {} THEN S ELSE Grow(S \cup Frontier(S, T), T)

\* the first cell of T in raster order (labels are numbered in that order)
RasterFirst(T) ==
    CHOOSE c \in T : \A d \in T : c[1] < d[1] \/ (c[1] = d[1] /\ c[2] <= d[2])

RECURSIVE Label(_)
Label(T) ==
    IF T = {} THEN <<>>
    ELSE <<Grow({RasterFirst(T)}, T)>> \o Label(T \ Grow({RasterFirst(T)}, T))

RECURSIVE SumOver(_, _)
SumOver(f, S) ==
    IF S = {} THEN 0 ELSE f[RasterFirst(S)] + SumOver(f, S \ {RasterFirst(S)})

\* np.std of the doses of the cells S, in dose units: sqrt(mean(x^2) - mean(x)^2)
\* = sqrt(n * sum(x^2) - sum(x)^2) / n, the root taken to the dose resolution
StdOf(mesh, S) ==
    Norm(ISqrt(Cardinality(S) * SumOver([c \in S |-> mesh[c] * mesh[c]], S)
                 - SumOver(mesh, S) * SumOver(mesh, S)),
         Cardinality(S))

StdOfEach(mesh, comps) == [i \in 1 .. Len(comps) |-> StdOf(mesh, comps[i])]

\* BedMesh.get_std_deviation(overall_dev=False): one deviation per connected
\* component of bool_mesh
GetStdDeviation(b) == StdOfEach(b.deposition_mesh, Label({c \in Cells : b.bool_mesh[c]}))

-----------------------------------------------------------------------------
(* SquaredSerpentine (optimizer/SquaredSerpentine.py) *)

\* the lower and the upper end of the movement zone along one axis: the
\* rectangle [lo, hi] grown by the margin and clamped to the bed, or the clamped
\* rectangle itself when that interval collapses
ZoneLo(lo, hi, margin) ==
    IF RLe(RMin(R(size_mm), RAdd(hi, margin)), RMax(R(0), RSub(lo, margin)))
    THEN RMax(R(0), lo) ELSE RMax(R(0), RSub(lo, margin))

ZoneHi(lo, hi, margin) ==
    IF RLe(RMin(R(size_mm), RAdd(hi, margin)), RMax(R(0), RSub(lo, margin)))
    THEN RMin(R(size_mm), hi) ELSE RMin(R(size_mm), RAdd(hi, margin))

\* every row read left to right
PointXCombing(xl, xr, xn, k) == Linspace(xl, xr, xn, k % xn)

\* the point of index k (0-based) of the serpentine: row k \div xn of y_source,
\* read left to right on even rows and right to left on odd rows
PointX(xl, xr, xn, k) ==
    IF (k \div xn) % 2 = 0 THEN Linspace(xl, xr, xn, k % xn)
    ELSE Linspace(xl, xr, xn, xn - 1 - (k % xn))

PointY(yb, yt, xn, yn, k) == Linspace(yt, yb, yn, k \div xn)

\* every pass in forward order
PassOrderForward(n, q) == q % n

\* the index of the point the pass visits at its step i (0-based)
PassOrder(n, q) == IF (q \div n) % 2 = 0 THEN q % n ELSE n - 1 - (q % n)

PassOffset(sp, n, q) ==
    IF (q \div n) % 2 = 1 /\ sp.alternate_offset THEN RDiv(sp.stride, R(2)) ELSE R(0)

\* SquaredSerpentine._compute_serpentines, lines 121-138
MovementAt(sp, xl, xr, yb, yt, xn, yn, q) ==
    Movement(PointX(xl, xr, xn, PassOrder(xn * yn, q)),
             RAdd(PointY(yb, yt, xn, yn, PassOrder(xn * yn, q)), PassOffset(sp, xn * yn, q)),
             sp.speed)

PathRows(sp, xl, xr, yb, yt, xn, yn) ==
    [q \in 1 .. sp.passes * xn * yn |-> MovementAt(sp, xl, xr, yb, yt, xn, yn, q - 1)]

\* a row count without the closing row of the zone
PathInOpen(sp, xl, xr, yb, yt) ==
    IF ~(RLt(xl, xr) /\ RLt(yb, yt)) THEN <<>>
    ELSE PathRows(sp, xl, xr, yb, yt, Max(2, sp.x_amnt),
                  Max(2, RTrunc(RDiv(RAbs(RSub(yt, yb)), sp.stride))))

\* lines 92-103; the source guards the division with max(stride, 1e-9), which
\* is the stride itself for every stride of at least 1e-9
PathIn(sp, xl, xr, yb, yt) ==
    IF ~(RLt(xl, xr) /\ RLt(yb, yt)) THEN <<>>
    ELSE PathRows(sp, xl, xr, yb, yt, Max(2, sp.x_amnt),
                  Max(2, RTrunc(RDiv(RAbs(RSub(yt, yb)), sp.stride)) + 1))

\* SquaredSerpentine._compute_serpentines: the movement list for the current
\* stride and margin
ComputeSerpentines(sp) ==
    IF ~sp.mask.has_bbox THEN <<>>
    ELSE PathIn(sp,
                ZoneLo(sp.mask.bl_corner[1], RAdd(sp.mask.bl_corner[1], sp.mask.x_size), sp.margin),
                ZoneHi(sp.mask.bl_corner[1], RAdd(sp.mask.bl_corner[1], sp.mask.x_size), sp.margin),
                ZoneLo(sp.mask.bl_corner[2], RAdd(sp.mask.bl_corner[2], sp.mask.y_size), sp.margin),
                ZoneHi(sp.mask.bl_corner[2], RAdd(sp.mask.bl_corner[2], sp.mask.y_size), sp.margin))

\* SquaredSerpentine.set_stride
SetStride(sp, stride) ==
    [sp EXCEPT !.stride = stride,
               !.movements = ComputeSerpentines([sp EXCEPT !.stride = stride])]

\* a set_margin that stores the margin and keeps the path it had
SetMarginStale(sp, margin) == [sp EXCEPT !.margin = margin]

\* SquaredSerpentine.set_margin
SetMargin(sp, margin) ==
    [sp EXCEPT !.margin = margin,
               !.movements = ComputeSerpentines([sp EXCEPT !.margin = margin])]

\* SquaredSerpentine.set_stride_and_margin
SetStrideAndMargin(sp, stride, margin) ==
    [sp EXCEPT !.stride = stride, !.margin = margin,
               !.movements = ComputeSerpentines([sp EXCEPT !.stride = stride,
                                                           !.margin = margin])]

\* SquaredSerpentine.__init__
SquaredSerpentineNew(mk, margin, x_amnt, stride, speed, passes, alternate_offset) ==
    SetStride([mask |-> mk, margin |-> margin, x_amnt |-> x_amnt, stride |-> stride,
               speed |-> speed, passes |-> passes, alternate_offset |-> alternate_offset,
               movements |-> <<>>], stride)

-----------------------------------------------------------------------------
(* Optimizer (optimizer/Optimizer.py) on the live bed and the live serpentines *)

\* the longest list of candidate strides handed to a sweep
MaxStrides == 2

\* the samples of the modelled bed: A covers the grid points {0, 2} x {0, 2},
\* B the grid points {4, 6} x {6}
SampleA == SampleMaskNew(0, 0, 4, 4)

SampleB == SampleMaskNew(4, 6, 4, 2)

\* Wrapper.create_serpentines: one serpentine per mask, with the configured
\* margin, x_amount, initial stride, speed and passes
SerpentineFor(mk) == SquaredSerpentineNew(mk, R(0), 2, R(2), R(4), 1, FALSE)

SerpentinesFor(masks) == [k \in 1 .. Len(masks) |-> SerpentineFor(masks[k])]

\* the bed with the rectangles of the sample masks registered
RECURSIVE BedWith(_, _)
BedWith(b, masks) ==
    IF masks = <<>> THEN b
    ELSE BedWith(IF Head(masks).has_bbox THEN AddBoolMask(b, Head(masks)) ELSE b, Tail(masks))

\* the set-ups: the masks on the bed and the serpentines (by position in serps)
\* the Optimizer is constructed with
Layouts ==
    {<<<<SampleA>>, <<1>>>>,
     <<<<SampleA, SampleB>>, <<1>>>>,
     <<<<SampleA, SampleB>>, <<2>>>>,
     <<<<SampleA, SampleB>>, <<1, 2>>>>,
     <<<<NoSampleMask>>, <<1>>>>}

StrideValues == {R(1), R(2)}

StrideLists == SeqsUpTo(StrideValues, MaxStrides)

\* Optimizer.__init__, and the frame of span_std_vs_stride: pc is the position
\* in it, i the number of completed iterations of the sweep loop.  trials and
\* sims record each completed trial and the number of Scheduler runs.
OptimizerNew(ids) ==
    [pc |-> "idle",
     squared_serpentines |-> ids,
     dev_vs_stride |-> <<>>,
     strides |-> <<>>,
     reset_mesh_each |-> TRUE,
     restore_stride |-> FALSE,
     plot |-> TRUE,
     original_strides |-> <<>>,
     devs |-> <<>>,
     i |-> 0,
     selected |-> FALSE,
     best_strides |-> <<>>,
     best_stride |-> R(0),
     error |-> "",
     trials |-> <<>>,
     sims |-> 0]

InIds(ids, k) == \E a \in 1 .. Len(ids) : ids[a] = k

\* "for serp in self.squared_serpentines: serp.set_stride(s)"
SetStrides(sps, ids, stride) ==
    [k \in 1 .. Len(sps) |-> IF InIds(ids, k) THEN SetStride(sps[k], stride) ELSE sps[k]]

\* "for serp, orig in zip(self.squared_serpentines, original_strides): serp.set_stride(orig)"
RECURSIVE RestoreStrides(_, _, _)
RestoreStrides(sps, ids, orig) ==
    IF ids = <<>> \/ orig = <<>> THEN sps
    ELSE RestoreStrides(SetStrides(sps, <<Head(ids)>>, Head(orig)), Tail(ids), Tail(orig))

\* Optimizer._sim_routine, lines 21-23: the movements of the optimizer's
\* serpentines, one list after the other (serp.serpentines is the movement list
\* the serpentine computed)
RECURSIVE AllMovements(_, _)
AllMovements(sps, ids) ==
    IF ids = <<>> THEN <<>> ELSE sps[Head(ids)].movements \o AllMovements(sps, Tail(ids))

\* Optimizer._sim_routine: a Scheduler on the optimizer's bed, started; the
\* result is the Scheduler and the bed when start returns or raises
SimRoutine(sps, ids, b) ==
    SchedulerRun(<<[SchedulerNew(AllMovements(sps, ids)) EXCEPT !.status = "running"], b>>)

\* a failed trial is skipped: it reports no deviation and the sweep goes on
RaiseSkipping(o, err) ==
    IF o.pc = "sweep" THEN [o EXCEPT !.devs = Append(@, <<>>), !.i = @ + 1]
    ELSE [o EXCEPT !.pc = "raised", !.error = err]

\* an exception leaves span_std_vs_stride
Raise(o, err) == [o EXCEPT !.pc = "raised", !.error = err]

\* lines 75-76
Measured(o, dev_std) ==
    [o EXCEPT !.devs = Append(@, dev_std),
              !.i = @ + 1,
              !.sims = @ + 1,
              !.trials = Append(@, [stride |-> o.strides[o.i + 1], devs |-> dev_std])]

TrialResult(o, sps, run) ==
    IF run[1].status = "raised"
    THEN <<Raise([o EXCEPT !.sims = @ + 1], "ValueError"), sps, run[2], run[1]>>
    ELSE <<Measured(o, GetStdDeviation(run[2])), sps, run[2], run[1]>>

TrialOn(o, sps, b) == TrialResult(o, sps, SimRoutine(sps, o.squared_serpentines, b))

\* lines 69-76: one iteration of the sweep loop: <<opt, serps, bed, sched>> after it
TrialStep(o, sps, b) ==
    TrialOn(o, SetStrides(sps, o.squared_serpentines, o.strides[o.i + 1]),
            IF o.reset_mesh_each THEN ClearDepositionMesh(b) ELSE b)

\* the pairs of a with b read from its end
ZipReversed(a, b) == [k \in 1 .. Min(Len(a), Len(b)) |-> <<a[k], b[Len(b) + 1 - k]>>]

\* list(zip(a, b))
Zip(a, b) == [k \in 1 .. Min(Len(a), Len(b)) |-> <<a[k], b[k]>>]

\* np.argmin of a sequence: the position of the first smallest element
ArgMin(q) ==
    CHOOSE k \in 1 .. Len(q) :
        /\ \A j \in 1 .. Len(q) : RLe(q[k], q[j])
        /\ \A j \in 1 .. k - 1 : RLt(q[k], q[j])

\* devs_arr[:, j]
Column(devs, j) == [k \in 1 .. Len(devs) |-> devs[k][j]]

\* the number of regions a row of devs reports
MasksIn(devs) == IF devs = <<>> THEN 0 ELSE Len(devs[1])

\* lines 124-125: the best stride of each mask
BestStrides(strides, devs) ==
    [j \in 1 .. MasksIn(devs) |-> strides[ArgMin(Column(devs, j))]]

\* lines 148-152 and 176-179: the best stride is set, the bed cleared and
\* simulated once more, and the original strides restored on request
Resimulated(o, sps, run) ==
    IF run[1].status = "raised"
    THEN <<Raise([o EXCEPT !.sims = @ + 1], "ValueError"), sps, run[2], run[1]>>
    ELSE <<[o EXCEPT !.sims = @ + 1, !.pc = "returned"],
           IF o.restore_stride
           THEN RestoreStrides(sps, o.squared_serpentines, o.original_strides) ELSE sps,
           run[2], run[1]>>

ApplyBest(o, sps, b) ==
    Resimulated(o, sps, SimRoutine(sps, o.squared_serpentines, ClearDepositionMesh(b)))

Chosen(o, best) == [o EXCEPT !.selected = TRUE, !.best_strides = best, !.best_stride = best[1]]

\* lines 94-179, the branch "if plot": with no stride or no region the plot or
\* np.argmin raises ValueError; with several regions the best stride of the
\* first one is taken, with one region its best stride
SelectStep(o, sps, b, sc) ==
    IF o.strides = <<>> \/ MasksIn(o.devs) = 0 THEN <<Raise(o, "ValueError"), sps, b, sc>>
    ELSE ApplyBest(Chosen(o, BestStrides(o.strides, o.devs)),
                   SetStrides(sps, o.squared_serpentines,
                              BestStrides(o.strides, o.devs)[1]), b)

\* a bed with the samples of one set-up, their serpentines, and a new Optimizer
\* over some of them; sched is the Scheduler of the latest _sim_routine, none
\* having run yet
Init ==
    /\ \E has_function \in BOOLEAN, l \in Layouts :
          /\ bed = BedWith(BedMeshNew(has_function), l[1])
          /\ serps = SerpentinesFor(l[1])
          /\ opt = OptimizerNew(l[2])
    /\ sched = SchedulerNew(<<>>)

\* span_std_vs_stride is called: lines 58-68
SpanStdVsStride ==
    /\ opt.pc = "idle"
    /\ \E strides \in StrideLists, reset_mesh_each, restore_stride, plot \in BOOLEAN :
          opt' = [opt EXCEPT !.pc = "sweep",
                             !.strides = strides,
                             !.reset_mesh_each = reset_mesh_each,
                             !.restore_stride = restore_stride,
                             !.plot = plot,
                             !.original_strides =
                                 [k \in 1 .. Len(opt.squared_serpentines) |->
                                     serps[opt.squared_serpentines[k]].stride]]
    /\ UNCHANGED <<bed, sched, serps>>

\* one iteration of the sweep loop, lines 69-76
Trial ==
    /\ opt.pc = "sweep"
    /\ opt.i < Len(opt.strides)
    /\ \E r \in {TrialStep(opt, serps, bed)} :
          /\ opt' = r[1]
          /\ serps' = r[2]
          /\ bed' = r[3]
          /\ sched' = r[4]

\* the loop is over: lines 78-91
Store ==
    /\ opt.pc = "sweep"
    /\ opt.i = Len(opt.strides)
    /\ opt' = [opt EXCEPT !.pc = "stored", !.dev_vs_stride = Zip(opt.strides, opt.devs)]
    /\ serps' = IF opt.restore_stride
                THEN RestoreStrides(serps, opt.squared_serpentines, opt.original_strides)
                ELSE serps
    /\ UNCHANGED <<bed, sched>>

\* "if plot", lines 94-179, to the return
Select ==
    /\ opt.pc = "stored"
    /\ opt.plot
    /\ \E r \in {SelectStep(opt, serps, bed, sched)} :
          /\ opt' = r[1]
          /\ serps' = r[2]
          /\ bed' = r[3]
          /\ sched' = r[4]

\* plot is off: the sweep returns (strides_arr, devs_arr, None)
ReturnUnplotted ==
    /\ opt.pc = "stored"
    /\ ~opt.plot
    /\ opt' = [opt EXCEPT !.pc = "returned"]
    /\ UNCHANGED <<bed, sched, serps>>

\* MaldiStatus.optimize_strides, lines 137-158: the sweep is called with the
\* keyword progress_callback, which span_std_vs_stride does not take: the call
\* raises TypeError before the body of the sweep runs
MaldiOptimizeStrides ==
    /\ opt.pc = "idle"
    /\ opt' = Raise(opt, "TypeError")
    /\ UNCHANGED <<bed, sched, serps>>

Next ==
    \/ SpanStdVsStride
    \/ Trial
    \/ Store
    \/ Select
    \/ ReturnUnplotted
    \/ MaldiOptimizeStrides

Spec == Init /\ [][Next]_vars

(***************************************************************************)
(* Properties of the stride sweep                                          *)
(***************************************************************************)

RECURSIVE RSum(_)
RSum(q) == IF q = <<>> THEN R(0) ELSE RAdd(Head(q), RSum(Tail(q)))

\* MaldiStatus.optimize_strides, lines 159-160: np.mean of the deviations of a candidate
MeanOf(q) == RDiv(RSum(q), R(Len(q)))

\* the candidate with the smallest mean deviation over the regions, the first
\* of them on ties
BestByMean == opt.strides[ArgMin([k \in 1 .. Len(opt.devs) |-> MeanOf(opt.devs[k])])]

\* the serpentines of the optimizer
OptSerps == {opt.squared_serpentines[a] : a \in 1 .. Len(opt.squared_serpentines)}

\* the body of span_std_vs_stride has been entered
SweepEntered ==
    \/ opt.pc \in {"sweep", "stored", "returned"}
    \/ opt.pc = "raised" /\ opt.error # "TypeError"

\* C1: during a sweep every trial runs on its own fresh grid and its own fresh
\* path; in particular no trial writes the live grid or the live path generator.
C1_TrialsLeaveLiveStateAlone ==
    [][Trial => (bed' = bed /\ serps' = serps)]_vars

SelectedBest == IF opt.selected THEN opt.best_stride ELSE BestByMean

C5_RejectsEmptySweep ==
    (SweepEntered /\ (opt.strides = <<>> \/ \E k \in OptSerps : ~serps[k].mask.has_bbox)) =>
        /\ opt.pc = "raised"
        /\ opt.error \in {"NoCandidates", "NoSample"}
        /\ opt.sims = 0
        /\ \A k \in OptSerps : serps[k] = SerpentineFor(serps[k].mask)
        /\ \A c \in Cells : bed.deposition_mesh[c] = 0

FreshDevs(stride) ==
    GetStdDeviation(SimRoutine(SetStrides(serps, opt.squared_serpentines, stride),
                               opt.squared_serpentines, ClearDepositionMesh(bed))[2])

C22_ProgressCallbackRunSucceeds ==
    ~(opt.pc = "raised" /\ opt.error = "TypeError" /\ opt.sims = 0)

-----------------------------------------------------------------------------
\* The path generator alone: a SquaredSerpentine is constructed for a region
\* and has its stride and margin changed by its setters.  serps holds the one
\* generator; opt remembers whether a setter was called and whether the
\* generator had a path before the last call.

MaxPasses == 2
MaxLateral == 3

\* regions on the bed, across its edge, and beyond it on either axis
PathMasks ==
    {SampleMaskNew(0, 0, 4, 4), SampleMaskNew(4, 6, 4, 2), SampleMaskNew(6, 6, 4, 4),
     SampleMaskNew(10, 0, 2, 4), SampleMaskNew(-4, 2, 2, 2), SampleMaskNew(2, 10, 4, 2)}

PathMargins == {R(0), R(1), R(4)}
PathStrides == {R(1), R(2), R(3)}

InitPath ==
    /\ bed = BedMeshNew(TRUE)
    /\ sched = SchedulerNew(<<>>)
    /\ \E mk \in PathMasks, margin \in PathMargins, stride \in PathStrides,
          x_amnt \in 1 .. MaxLateral, passes \in 1 .. MaxPasses,
          alternate_offset \in BOOLEAN :
          serps = <<SquaredSerpentineNew(mk, margin, x_amnt, stride, R(4), passes,
                                         alternate_offset)>>
    /\ opt = [pc |-> "path", called |-> FALSE, had_path |-> FALSE]

PathSetStride ==
    /\ \E stride \in PathStrides : serps' = <<SetStride(serps[1], stride)>>
    /\ opt' = [opt EXCEPT !.called = TRUE, !.had_path = serps[1].movements # <<>>]
    /\ UNCHANGED <<bed, sched>>

PathSetMargin ==
    /\ \E margin \in PathMargins : serps' = <<SetMargin(serps[1], margin)>>
    /\ opt' = [opt EXCEPT !.called = TRUE, !.had_path = serps[1].movements # <<>>]
    /\ UNCHANGED <<bed, sched>>

PathSetStrideAndMargin ==
    /\ \E stride \in PathStrides, margin \in PathMargins :
          serps' = <<SetStrideAndMargin(serps[1], stride, margin)>>
    /\ opt' = [opt EXCEPT !.called = TRUE, !.had_path = serps[1].movements # <<>>]
    /\ UNCHANGED <<bed, sched>>

NextPath == PathSetStride \/ PathSetMargin \/ PathSetStrideAndMargin

SpecPath == InitPath /\ [][NextPath]_vars

-----------------------------------------------------------------------------
\* Properties of the path generator

\* the region's box expanded by the margin and cut to the bed, on one axis
ExpandedLo(lo, margin) == RMax(R(0), RSub(lo, margin))
ExpandedHi(hi, margin) == RMin(R(size_mm), RAdd(hi, margin))

\* the height of the movement zone of a generator whose expanded box has not
\* collapsed on the y axis
ZoneHeight(sp) ==
    RSub(ExpandedHi(RAdd(sp.mask.bl_corner[2], sp.mask.y_size), sp.margin),
         ExpandedLo(sp.mask.bl_corner[2], sp.margin))

ZoneWidth(sp) ==
    RSub(ExpandedHi(RAdd(sp.mask.bl_corner[1], sp.mask.x_size), sp.margin),
         ExpandedLo(sp.mask.bl_corner[1], sp.margin))

SweepRows(sp) == Max(2, RFloor(RDiv(ZoneHeight(sp), sp.stride)) + 1)

\* the distinct heights the first pass visits
RowsVisited(sp) ==
    {sp.movements[k].y : k \in 1 .. Len(sp.movements) \div sp.passes}

\* C13: for a stride > 0, a margin >= 0 and a non-degenerate movement zone the
\* path has max(2, floor(height / stride) + 1) sweep rows, height being that of
\* the clamped zone, and passes * rows * lateral points movements in all (the
\* lateral point count being at least 2).
C13_RowAndMovementCount ==
    RLt(R(0), ZoneHeight(serps[1])) /\ RLt(R(0), ZoneWidth(serps[1])) =>
        /\ Cardinality(RowsVisited(serps[1])) = SweepRows(serps[1])
        /\ Len(serps[1].movements) =
              serps[1].passes * SweepRows(serps[1]) * Max(2, serps[1].x_amnt)

\* a path of two passes over more than two rows, with a height the stride does
\* not divide, rebuilt by a setter
C13_Witness ==
    /\ opt.called
    /\ serps[1].passes = 2
    /\ serps[1].stride = R(3)
    /\ ZoneHeight(serps[1]) = R(8)
    /\ RLt(R(0), ZoneWidth(serps[1]))
    /\ Len(serps[1].movements) = 2 * 3 * Max(2, serps[1].x_amnt)

\* the region lies wholly beyond the bed on the x axis or on the y axis
OutsideBed(mk) ==
    \/ RLe(R(size_mm), mk.bl_corner[1])
    \/ RLe(RAdd(mk.bl_corner[1], mk.x_size), R(0))
    \/ RLe(R(size_mm), mk.bl_corner[2])
    \/ RLe(RAdd(mk.bl_corner[2], mk.y_size), R(0))

\* C14: a region entirely outside [0, size] on either axis yields an empty
\* movement list, for every margin >= 0, also one large enough for the
\* expanded box to reach back onto the bed.
C14_OutsideRegionYieldsNoPath ==
    OutsideBed(serps[1].mask) => serps[1].movements = <<>>

\* C15: after any sequence of set_stride, set_margin and set_stride_and_margin
\* the movements are those of a freshly constructed generator with the final
\* stride and margin; nothing of an earlier setting is retained, also when the
\* new setting gives an empty path.
C15_SettersRebuildThePath ==
    serps[1].movements =
        SquaredSerpentineNew(serps[1].mask, serps[1].margin, serps[1].x_amnt,
                             serps[1].stride, serps[1].speed, serps[1].passes,
                             serps[1].alternate_offset).movements

\* a setter call has turned a non-empty path into an empty one
C15_Witness ==
    /\ opt.called
    /\ opt.had_path
    /\ serps[1].movements = <<>>

-----------------------------------------------------------------------------
\* The grid alone: a BedMesh is constructed for a fitted kernel diameter and a
\* spray function, regions are registered on it, its nozzle sprays at positions
\* on and off the bed, and the accumulator is cleared.  opt records the fitted
\* diameter, the function, whether the constructor returned, and the last call: its name, the shape it asked for, whether it raised, the mask
\* it returned, the number of sprays since the last clear, and whether a clear
\* found deposits.

MaxSprays == 1

\* rectangles <<x_min, x_max, y_min, y_max>>: two side by side, one on top of
\* both
Rects == {<<0, 4, 0, 4>>, <<4, 8, 0, 4>>, <<2, 6, 4, 8>>}

PointLists == {<<>>} \cup {<<r>> : r \in Rects} \cup {<<<<0, 4, 0, 4>>, <<4, 8, 0, 4>>>>}

\* spray calls <<position, time>>: on the bed, across each edge, and beyond it
SprayCalls ==
    {<<<<R(4), R(4)>>, R(0)>>, <<<<R(3), R(5)>>, R(2)>>, <<<<R(0), R(4)>>, R(2)>>,
     <<<<R(8), R(8)>>, R(0)>>, <<<<R(-2), R(4)>>, R(2)>>, <<<<R(10), R(4)>>, R(2)>>,
     <<<<R(-4), R(4)>>, R(2)>>, <<<<R(12), R(4)>>, R(2)>>, <<<<R(4), R(14)>>, R(2)>>,
     <<<<R(-6), R(4)>>, R(2)>>, <<<<R(4), R(-6)>>, R(0)>>}

\* what Config()._get_diameter_for_z(z_height) returns for the calibration table
FittedDiameters == {-2, 0, spray_diameter_mm}

SprayFunctions == {"None", "MaldiStatus.gaussian_function", "Wrapper.gaussian_function"}

InitBed ==
    /\ \E diameter_mm \in FittedDiameters, function \in SprayFunctions :
          /\ bed = [BedMeshNew(FALSE) EXCEPT !.spray_mask = NozzleInit(diameter_mm, function)]
          /\ opt = [pc |-> "bed", fitted |-> diameter_mm, function |-> function,
                    built |-> ~GaussianFunctionRaises(diameter_mm, function),
                    op |-> "new", shape |-> "", raised |-> FALSE,
                    returned |-> NoSampleMask, sprays |-> 0, dirty |-> FALSE]
    /\ sched = SchedulerNew(<<>>)
    /\ serps = <<>>

\* bed.add_bool_mask(points, shape); a rectangle is registered once
BedAddBoolMask ==
    /\ opt.built
    /\ \E points \in PointLists, shape \in {"rectangle", "circle"} :
          /\ \A k \in 1 .. Len(bed.bool_masks) :
                bed.bool_masks[k] # AddBoolMaskTo(bed, points, shape).mask
          /\ bed' = AddBoolMaskTo(bed, points, shape).bed
          /\ opt' = [opt EXCEPT !.op = "add_bool_mask", !.shape = shape,
                                !.raised = AddBoolMaskTo(bed, points, shape).raised,
                                !.returned = AddBoolMaskTo(bed, points, shape).mask]
    /\ UNCHANGED <<sched, serps>>

\* bed.clear_deposition_mesh()
BedClear ==
    /\ opt.built
    /\ bed' = ClearDepositionMesh(bed)
    /\ opt' = [opt EXCEPT !.op = "clear_deposition_mesh", !.shape = "", !.raised = FALSE,
                          !.returned = NoSampleMask, !.sprays = 0,
                          !.dirty = \E c \in Cells : bed.deposition_mesh[c] # 0]
    /\ UNCHANGED <<sched, serps>>

\* bed.nozzle.spray(apply_position=pos, time=time)
BedSprayAt(pos, time) ==
    /\ opt.built
    /\ opt.sprays < MaxSprays
    /\ bed' = [bed EXCEPT !.deposition_mesh = NozzleSpray(bed, pos, time).mesh]
    /\ opt' = [opt EXCEPT !.op = "spray", !.shape = "",
                          !.raised = NozzleSpray(bed, pos, time).raised,
                          !.returned = NoSampleMask, !.sprays = @ + 1]
    /\ UNCHANGED <<sched, serps>>

BedSpray == \E call \in SprayCalls : BedSprayAt(call[1], call[2])

NextBed == BedAddBoolMask \/ BedClear \/ BedSpray

SpecBed == InitBed /\ [][NextBed]_vars

-----------------------------------------------------------------------------
\* Properties of the grid

\* C16: clear_deposition_mesh sets every cell of the deposition accumulator to
\* zero and leaves the boolean layer, the registered masks and the nozzle
\* kernel unchanged, in every reachable state of the grid.
C16_ClearResetsOnlyDeposition ==
    [][opt'.op = "clear_deposition_mesh" =>
          /\ \A c \in Cells : bed'.deposition_mesh[c] = 0
          /\ bed'.bool_mesh = bed.bool_mesh
          /\ bed'.bool_masks = bed.bool_masks
          /\ bed'.spray_mask = bed.spray_mask
          /\ ~opt'.raised]_vars

\* a clear found deposits on a grid with a kernel and a marked region
C16_Witness ==
    /\ opt.op = "clear_deposition_mesh"
    /\ opt.dirty
    /\ \A c \in Cells : bed.deposition_mesh[c] = 0
    /\ \E c \in Cells : bed.bool_mesh[c]
    /\ Len(bed.bool_masks) = 2
    /\ bed.spray_mask.side > 0

\* C17: registering a rectangle ORs the region into the boolean layer (no
\* marked cell becomes unmarked), appends exactly one mask to the registry,
\* returns that mask and leaves the deposition accumulator unchanged; a request
\* for another shape fails with an error and leaves the boolean layer and the
\* registry unchanged.
C17_RegisterRectangle ==
    [][opt'.op = "add_bool_mask" =>
          IF opt'.shape # "rectangle"
          THEN opt'.raised /\ bed' = bed
          ELSE opt'.returned.has_bbox =>
                /\ ~opt'.raised
                /\ \A c \in Cells : bed.bool_mesh[c] => bed'.bool_mesh[c]
                /\ \A c \in Cells :
                      bed'.bool_mesh[c] /\ ~bed.bool_mesh[c] =>
                          /\ RLe(opt'.returned.bl_corner[1], BedCoord(c[2]))
                          /\ RLe(opt'.returned.bl_corner[2], BedCoord(c[1]))
                /\ \E c \in Cells : bed'.bool_mesh[c] /\ ~bed.bool_mesh[c]
                /\ Len(bed'.bool_masks) = Len(bed.bool_masks) + 1
                /\ SubSeq(bed'.bool_masks, 1, Len(bed.bool_masks)) = bed.bool_masks
                /\ bed'.bool_masks[Len(bed'.bool_masks)] = opt'.returned
                /\ bed'.deposition_mesh = bed.deposition_mesh
                /\ bed'.spray_mask = bed.spray_mask]_vars

\* a second rectangle has been registered on a grid that holds deposits
C17_Witness ==
    /\ opt.op = "add_bool_mask"
    /\ ~opt.raised
    /\ Len(bed.bool_masks) = 2
    /\ bed.bool_masks[2] = opt.returned
    /\ \E c \in Cells : bed.deposition_mesh[c] # 0

\* the edges of a region mask
XMin(mk) == mk.bl_corner[1]
XMax(mk) == RAdd(mk.bl_corner[1], mk.x_size)
YMin(mk) == mk.bl_corner[2]
YMax(mk) == RAdd(mk.bl_corner[2], mk.y_size)

OnLowerEdge(mk, c) ==
    \/ /\ BedCoord(c[2]) = XMin(mk)
       /\ RLe(YMin(mk), BedCoord(c[1]))
       /\ RLt(BedCoord(c[1]), YMax(mk))
    \/ /\ BedCoord(c[1]) = YMin(mk)
       /\ RLe(XMin(mk), BedCoord(c[2]))
       /\ RLt(BedCoord(c[2]), XMax(mk))

OnUpperEdge(mk, c) == BedCoord(c[2]) = XMax(mk) \/ BedCoord(c[1]) = YMax(mk)

SharedEdge(m1, m2) == XMax(m1) = XMin(m2) \/ YMax(m1) = YMin(m2)

KernelDoseAt(b, pos, time, c) ==
    Dose(ScaledTile(b.spray_mask, CellFrac(pos[2]), CellFrac(pos[1]), time,
                    c[1] - CellIndex(pos[2]) + b.spray_mask.radius_cells,
                    c[2] - CellIndex(pos[1]) + b.spray_mask.radius_cells))

InFootprint(b, pos, c) ==
    /\ Abs(c[1] - CellIndex(pos[2])) <= b.spray_mask.radius_cells
    /\ Abs(c[2] - CellIndex(pos[1])) <= b.spray_mask.radius_cells

\* the cells of the footprint receive the kernel's dose, the others nothing
ClippedAdd(b, m, pos, time) ==
    \A c \in Cells :
        m[c] = b.deposition_mesh[c]
               + (IF InFootprint(b, pos, c) THEN KernelDoseAt(b, pos, time, c) ELSE 0)

\* C19: for every spray position, also with the footprint partly or wholly
\* beyond an edge of the accumulator, SprayMask.apply changes only cells within
\* the kernel radius of the position's cell and inside the accumulator: the
\* overlapping part is added, nothing wraps around, and the call does not fail.
C19_SprayClipsAtEveryEdge ==
    [][\A call \in SprayCalls :
          bed.spray_mask.side > 0 /\ BedSprayAt(call[1], call[2]) =>
              /\ ~opt'.raised
              /\ ClippedAdd(bed, bed'.deposition_mesh, call[1], call[2])]_vars

\* C20: when the diameter fitted from the calibration curve is zero or
\* negative, building or using the nozzle kernel fails with an error; no
\* substitute diameter is used to build a kernel and no deposition is made.
C20_NonPositiveDiameterFails ==
    opt.fitted <= 0 /\ opt.function # "None" =>
        /\ ~opt.built
        /\ bed.spray_mask.side = 0
        /\ \A c \in Cells : bed.deposition_mesh[c] = 0

-----------------------------------------------------------------------------
\* Further properties of Scheduler.start

\* start() has returned from a single movement with speed 0 whose target is at
\* least one grid step away
SingleFarStillMovementDone ==
    /\ sched.status = "done"
    /\ Len(sched.movement_list) = 1
    /\ FirstMovement.speed = R(0)
    /\ ~IsDwell(AtStart, FirstMovement)

\* C23: for a movement with speed 0 whose target is at least one grid step
\* away, Scheduler.start computes duration 0 and issues exactly one spray for
\* that movement, with no further subdivision, and the simulated time does not
\* advance.
C23_ZeroSpeedSpraysOnce ==
    SingleFarStillMovementDone =>
        /\ TimeDuration(AtStart, FirstMovement) = R(0)
        /\ Len(sched.sprays) = 1
        /\ sched.current_time = R(0)

\* the finer of one sub-step per grid cell and one per minimum time unit, and
\* never fewer than 1
FinerSubdivision(s, m) ==
    Max(1, Max(StepsIn(s, m), RTrunc(RDiv(Distance(s, m), s.min_time_step))))

\* C24: for a travel movement of distance d >= step, Scheduler.start performs N
\* sprays, N being the finer of floor(d / step) and floor(d / min_time_step) and
\* never fewer than 1; each spray's duration is its sub-step's time increment
\* and the durations of the N sprays sum to the travel duration d / speed.
C24_TravelSubdivision ==
    (/\ sched.status = "done"
     /\ Len(sched.movement_list) = 1
     /\ RLt(R(0), FirstMovement.speed)
     /\ ~IsDwell(AtStart, FirstMovement)) =>
        /\ Len(sched.sprays) = FinerSubdivision(AtStart, FirstMovement)
        /\ RSum([k \in 1 .. Len(sched.sprays) |-> sched.sprays[k].time])
              = TimeDuration(AtStart, FirstMovement)

-----------------------------------------------------------------------------
\* Further properties of the path generator

\* the number of points of one pass, and the k-th point (1-based) of pass p
PassLen(sp) == Len(sp.movements) \div sp.passes
PassPoint(sp, p, k) == sp.movements[p * PassLen(sp) + k]

RowOf(sp, k) == (k - 1) \div Max(2, sp.x_amnt)

\* C26: within one pass of the base zig-zag the rows run from the top of the
\* movement zone to the bottom, row 0 runs left to right, and every row runs in
\* the lateral direction opposite to the row before it, so the last point of a
\* row and the first point of the next have the same x.
C26_RowsDescendAndAlternate ==
    \A k \in 1 .. PassLen(serps[1]) - 1 :
        IF RowOf(serps[1], k + 1) = RowOf(serps[1], k)
        THEN /\ PassPoint(serps[1], 0, k + 1).y = PassPoint(serps[1], 0, k).y
             /\ IF RowOf(serps[1], k) % 2 = 0
                THEN RLt(PassPoint(serps[1], 0, k).x, PassPoint(serps[1], 0, k + 1).x)
                ELSE RLt(PassPoint(serps[1], 0, k + 1).x, PassPoint(serps[1], 0, k).x)
        ELSE /\ RLt(PassPoint(serps[1], 0, k + 1).y, PassPoint(serps[1], 0, k).y)
             /\ PassPoint(serps[1], 0, k + 1).x = PassPoint(serps[1], 0, k).x

\* a rebuilt path of at least three rows of three points that starts at the
\* top of its zone
C26_Witness ==
    /\ opt.called
    /\ serps[1].x_amnt = 3
    /\ PassLen(serps[1]) >= 9
    /\ serps[1].movements[1].y = ExpandedHi(YMax(serps[1].mask), serps[1].margin)
    /\ serps[1].movements[1].x = ExpandedLo(XMin(serps[1].mask), serps[1].margin)

\* C29: every movement target the path generator produces lies on the work
\* surface, 0 <= x <= size and 0 <= y <= size, for every region, margin,
\* stride, pass count and alternate_offset setting.
C29_TargetsOnTheBed ==
    \A k \in 1 .. Len(serps[1].movements) :
        /\ RLe(R(0), serps[1].movements[k].x)
        /\ RLe(serps[1].movements[k].x, R(size_mm))
        /\ RLe(R(0), serps[1].movements[k].y)
        /\ RLe(serps[1].movements[k].y, R(size_mm))

-----------------------------------------------------------------------------
(* MaldiStatus: the bed of the application, its samples and the working height *)

\* SpecStatus explores MaldiStatus together with Config: the working height is
\* set, the bed is refreshed, samples are added and the nozzle of the bed
\* sprays.  bed is MaldiStatus.bed_mesh (None while opt.has_bed is false), opt
\* holds Config's z_height, MaldiStatus.samples, the last call, whether it
\* raised, and the number of sprays on the current bed.

MaxSamples == 2

\* Config.diameter_vs_z: the calibration table of the modelled machine
diameter_vs_z == [z |-> <<10, 20>>, diameter |-> <<4, 6>>, z_offset |-> 0]

\* the working heights Config.set("z_height", ...) is given
Heights == {diameter_vs_z.z[k] : k \in 1 .. Len(diameter_vs_z.z)}

\* Config._get_diameter_for_z: the line fitted through the calibration table,
\* read at z + z_offset
GetDiameterForZ(z) ==
    diameter_vs_z.diameter[1]
        + ((z + diameter_vs_z.z_offset - diameter_vs_z.z[1])
               * (diameter_vs_z.diameter[2] - diameter_vs_z.diameter[1]))
              \div (diameter_vs_z.z[2] - diameter_vs_z.z[1])

\* the rectangles <<x_min, x_max, y_min, y_max>> of the sample configurations:
\* two side by side, one on top of both, one that meets the first only at a
\* corner, and one apart from all
SampleRects ==
    {<<0, 4, 0, 2>>, <<4, 8, 0, 2>>, <<2, 6, 2, 4>>, <<4, 8, 2, 4>>, <<4, 8, 6, 8>>}

\* the spray calls <<position, time>> of SpecStatus
StatusSprayCalls == {<<<<R(4), R(4)>>, R(2)>>}

\* MaldiStatus.refresh_bed_mesh: a new BedMesh whose nozzle builds its kernel
\* for the working height of the moment
RefreshBedMesh(z_height) ==
    [BedMeshNew(FALSE) EXCEPT
        !.spray_mask = NozzleInit(GetDiameterForZ(z_height), "MaldiStatus.gaussian_function")]

\* MaldiStatus.__init__, with the working height Config loaded
InitStatus ==
    /\ \E z \in Heights :
          opt = [pc |-> "status", z_height |-> z, has_bed |-> FALSE, samples |-> <<>>,
                 op |-> "new", raised |-> FALSE, sprays |-> 0]
    /\ bed = BedMeshNew(FALSE)
    /\ sched = SchedulerNew(<<>>)
    /\ serps = <<>>

\* Config().set("z_height", z): stores the value and saves the file
StatusConfigSet ==
    /\ \E z \in Heights \ {opt.z_height} :
          opt' = [opt EXCEPT !.z_height = z, !.op = "set", !.raised = FALSE]
    /\ UNCHANGED <<bed, sched, serps>>

\* MaldiStatus.refresh_bed_mesh()
StatusRefreshBedMesh ==
    /\ bed' = RefreshBedMesh(opt.z_height)
    /\ opt' = [opt EXCEPT !.has_bed = TRUE, !.samples = <<>>, !.op = "refresh_bed_mesh",
                          !.raised = FALSE, !.sprays = 0]
    /\ UNCHANGED <<sched, serps>>

\* MaldiStatus.add_sample(sample_config) on the bed b and the sample list
\* samples it finds after the refresh of a missing bed: the rectangle is
\* registered, the serpentine is built, and Optimizer(bed_mesh=..., serpentine=...)
\* raises TypeError, its parameters being bedmesh and squared_serpentines, before
\* the aggregate is appended
AddSample(b, samples, rect) ==
    [raised |-> TRUE, bed |-> AddBoolMaskTo(b, <<rect>>, "rectangle").bed, samples |-> samples]

StatusAddSample ==
    /\ Len(bed.bool_masks) < MaxSamples
    /\ \E rect \in SampleRects : \E r \in {AddSample(IF opt.has_bed THEN bed ELSE RefreshBedMesh(opt.z_height),
                                           IF opt.has_bed THEN opt.samples ELSE <<>>, rect)} :
          /\ bed' = r.bed
          /\ opt' = [opt EXCEPT !.has_bed = TRUE, !.samples = r.samples, !.op = "add_sample",
                                !.raised = r.raised,
                                !.sprays = IF opt.has_bed THEN @ ELSE 0]
    /\ UNCHANGED <<sched, serps>>

\* MaldiStatus.bed_mesh.nozzle.spray(apply_position, time)
StatusSpray ==
    /\ opt.has_bed
    /\ opt.sprays < MaxSprays
    /\ \E call \in StatusSprayCalls :
          /\ bed' = [bed EXCEPT !.deposition_mesh = NozzleSpray(bed, call[1], call[2]).mesh]
          /\ opt' = [opt EXCEPT !.op = "spray", !.sprays = @ + 1,
                                !.raised = NozzleSpray(bed, call[1], call[2]).raised]
    /\ UNCHANGED <<sched, serps>>

NextStatus ==
    \/ StatusConfigSet
    \/ StatusRefreshBedMesh
    \/ StatusAddSample
    \/ StatusSpray

SpecStatus == InitStatus /\ [][NextStatus]_vars

-----------------------------------------------------------------------------
\* Properties of MaldiStatus

\* C21: after any sequence of working-height changes and sprays, the kernel a
\* spray uses has the diameter the calibration curve gives for the height
\* current at the time of the spray, never one built for an earlier height.
C21_KernelFollowsHeight ==
    (opt.op = "spray" /\ ~opt.raised) =>
        bed.spray_mask = SprayMaskNew(GetDiameterForZ(opt.z_height), grid_step_mm)

\* C27: for every calibrated diameter the kernel tile built for the nozzle has
\* an odd side, 2 * r + 1 cells with r the radius in cells used for windowing,
\* so that the window added to the accumulator covers the whole tile.
C27_KernelSideIsOdd ==
    (opt.has_bed /\ bed.spray_mask.side > 0) =>
        bed.spray_mask.side = 2 * bed.spray_mask.radius_cells + 1

\* C30: after any sequence of add_sample and refresh_bed_mesh calls, those that
\* raise included, MaldiStatus.samples and the registry of region masks of the
\* bed have the same length and the i-th aggregate holds the i-th registered
\* mask.
C30_SamplesMatchRegistry ==
    /\ Len(opt.samples) = Len(bed.bool_masks)
    /\ \A i \in 1 .. Len(opt.samples) : opt.samples[i].sample_mask = bed.bool_masks[i]

\* cells next to each other in a row or in a column
SideBySide(c, d) ==
    \/ c[1] = d[1] /\ (c[2] = d[2] + 1 \/ d[2] = c[2] + 1)
    \/ c[2] = d[2] /\ (c[1] = d[1] + 1 \/ d[1] = c[1] + 1)

\* the cells of the registered mask k
CellsOfMask(k) == {c \in Cells : BooleanFunction(bed.bool_masks[k], c)}

\* the registered rectangles j and k overlap or touch along a side
Touching(j, k) ==
    \E c \in CellsOfMask(j), d \in CellsOfMask(k) : c = d \/ SideBySide(c, d)

\* the registered rectangles linked to those of G through a chain of
\* rectangles that overlap or touch
RECURSIVE LinkedTo(_)
LinkedTo(G) ==
    IF \E k \in (1 .. Len(bed.bool_masks)) \ G : \E j \in G : Touching(j, k)
    THEN LinkedTo(G \cup {k \in (1 .. Len(bed.bool_masks)) \ G : \E j \in G : Touching(j, k)})
    ELSE G

\* the deviations devs are one per group of linked rectangles, and all zero on
\* a clean accumulator
OnePerGroup(devs, groups, clean) ==
    /\ Len(devs) = Cardinality(groups)
    /\ clean => \A i \in 1 .. Len(devs) : devs[i] = R(0)

====
